---- MODULE Spec2Model ----
(***************************************************************************)
(* A model of spotifyexporter.py: a one-shot script that authenticates,    *)
(* fetches eight collections of account data through a paged API, and      *)
(* writes one CSV file per collection.                                     *)
(*                                                                         *)
(* Two specifications:                                                     *)
(*   Spec    the whole script, one step per API call / file write;         *)
(*   SpecFn  the three loops (paginate_results, fetch_playlist_tracks,     *)
(*           fetch_followed_artists) called on bounded inputs.             *)
(*                                                                         *)
(* Python text is modelled as a sequence of string tokens, so that         *)
(* ', '.join(...) is an operation with an observable result; '' is <<>>.   *)
(* Python dicts whose value may also be None carry a "py" tag.             *)
(***************************************************************************)
EXTENDS Integers, Sequences, FiniteSets, TLC

\* ---------------------------------------------------------------- bounds

\* Script runs (Spec): items held by a plain collection that is not empty,
\* playlists of the user, tracks of one playlist.
MaxItems == 2
MaxPlaylists == 2
MaxTracks == 3
\* Function runs (SpecFn): the limit handed to paginate_results and the
\* length of the list its endpoint serves.
MaxLimit == 3
MaxListLen == 7
\* Function runs (SpecFn): full pages served beyond which the list ends
\* (lists hold up to MaxPages * limit + 1 items).
MaxPages == 2

\* ------------------------------------------------------ program constants

\* paginate_results(fetch_function, limit=50, ...)
DefaultLimit == 50
\* sp.current_user_followed_artists(limit=50, ...), len(batch) < 50
FollowedLimit == 50
\* limit, offset = 100, 0
PlaylistLimit == 100
\* sp.current_user_recently_played(limit=50)
RecentLimit == 50

\* ------------------------------------------------------------- Python text

EmptyStr == <<>>
Str(s) == <<s>>
\* a text made from a label and a number, e.g. "track" 3
Txt(label, i) == <<label, ToString(i)>>

\* ', '.join(texts)
RECURSIVE Join(_)
Join(texts) ==
    IF texts = <<>> THEN EmptyStr
    ELSE IF Len(texts) = 1 THEN Head(texts)
    ELSE Head(texts) \o <<", ">> \o Join(Tail(texts))

\* [a['name'] for a in artists]
Names(artists) == [k \in 1..Len(artists) |-> artists[k].name]

Min(a, b) == IF a < b THEN a ELSE b
Max(a, b) == IF a > b THEN a ELSE b

\* ------------------------------------------------- Python dicts and None

PyNone == [py |-> "None"]
EmptyDict == [py |-> "dict"]
IsNone(v) == v.py = "None"
\* d.get(k, default)
Get(d, k, default) == IF k \in DOMAIN d THEN d[k] ELSE default
\* d.get(k): None when the key is absent
GetOrNone(d, k) == Get(d, k, PyNone)
\* x or {}   (None and the empty dict are falsy)
OrEmptyDict(x) == IF IsNone(x) \/ DOMAIN x = {"py"} THEN EmptyDict ELSE x
\* the cursor argument: None, or the text of an id
PyStr(t) == [py |-> "str", v |-> t]

\* ------------------------------------------ what the data API holds

\* artists(i): the artist objects of the i-th track or album (one or two)
ArtistsOf(i) == [k \in 1..(1 + (i % 2)) |-> [name |-> Txt("artist", i + k - 1)]]

TrackOf(i) ==
    [name |-> Txt("track", i), artists |-> ArtistsOf(i),
     album |-> [name |-> Txt("album", i), release_date |-> Txt("date", i)],
     duration_ms |-> 1000 * i]

\* one item of GET /me/tracks
SavedTrackItem(i) == [track |-> TrackOf(i)]
\* one item of GET /me/player/recently-played
RecentItem(i) == [track |-> TrackOf(i), played_at |-> Txt("played", i)]
\* one artist object (followed artists, top artists)
ArtistItem(i) ==
    [name |-> Txt("artist", i), id |-> Txt("artist_id", i),
     genres |-> <<Str("rock"), Str("pop")>>, followers |-> [total |-> 10 * i],
     popularity |-> i]
\* one item of GET /me/albums
SavedAlbumItem(i) ==
    [album |-> [name |-> Txt("album", i), artists |-> ArtistsOf(i),
                release_date |-> Txt("date", i), total_tracks |-> i]]
\* one playlist object of GET /me/playlists, holding n tracks
PlaylistItem(i, n) ==
    [id |-> Txt("playlist_id", i), name |-> Txt("playlist", i),
     description |-> Str("d"), tracks |-> [total |-> n], public |-> TRUE]
\* GET /me
Profile ==
    [id |-> Str("u1"), display_name |-> Str("User"), email |-> Str("u@x"),
     country |-> Str("SE"), followers |-> [total |-> 7]]

\* the track object of a playlist item, as a dict every key of which is optional
PlTrack(i, arts, alb) ==
    [py |-> "dict", name |-> Txt("track", i), artists |-> arts, album |-> alb,
     duration_ms |-> 1000 * i]
PlAlbum(i) == [py |-> "dict", name |-> Txt("album", i)]
PlArtist(i) == [py |-> "dict", name |-> Txt("artist", i)]
\* the i-th item of GET /playlists/{id}/tracks with every field present
FullPlItem(i) ==
    [py |-> "dict", added_by |-> [py |-> "dict", id |-> Txt("user", i)],
     added_at |-> Txt("added", i),
     track |-> PlTrack(i, <<PlArtist(i)>>, PlAlbum(i))]
\* d restricted to the keys in keep
Restrict(d, keep) == [k \in (DOMAIN d) \cap (keep \cup {"py"}) |-> d[k]]

\* playlist items with any subset of the optional fields absent, and with
\* null where the API serves null (track, album, added_by)
AlbumShapes == {PyNone, EmptyDict, PlAlbum(1)}
ArtistListShapes ==
    {<<>>, <<PlArtist(1)>>, <<EmptyDict>>, <<PlArtist(1), PlArtist(2)>>}
TrackShapes ==
    {PyNone} \cup
    {Restrict(PlTrack(1, arts, alb), keep) :
        arts \in ArtistListShapes, alb \in AlbumShapes,
        keep \in SUBSET {"name", "artists", "album", "duration_ms"}}
AddedByShapes == {PyNone, EmptyDict, [py |-> "dict", id |-> Txt("user", 1)]}
ItemShapes ==
    {Restrict([py |-> "dict", added_by |-> ab, added_at |-> Txt("added", 1),
               track |-> tr], keep) :
        ab \in AddedByShapes, tr \in TrackShapes,
        keep \in SUBSET {"added_by", "added_at", "track"}}

\* the items [from .. from+count-1] of a list, as the API serves a page
Slice(list, from, count) ==
    [k \in 1..Max(0, Min(count, Len(list) - from + 1)) |-> list[from + k - 1]]
\* an offset-paged endpoint: the page at (offset, limit)
OffsetPage(list, off, lim) == Slice(list, off + 1, lim)
\* position of the artist with the given id in the list, 0 when there is none
IndexOfId(list, id) ==
    IF \E i \in 1..Len(list) : list[i].id = id
    THEN CHOOSE i \in 1..Len(list) : list[i].id = id
    ELSE 0
\* the cursor-paged endpoint: the artists after the one whose id is `after`
CursorPage(list, aft, lim) ==
    IF IsNone(aft) THEN Slice(list, 1, lim)
    ELSE IF IndexOfId(list, aft.v) = 0 THEN <<>>
    ELSE Slice(list, IndexOfId(list, aft.v) + 1, lim)

\* ------------------------------------------------- rows (the projections)

\* fetch_user_profile's dict
UserRow(profile) ==
    ("User ID" :> profile.id) @@ ("Display Name" :> profile.display_name) @@
    ("Email" :> profile.email) @@ ("Country" :> profile.country) @@
    ("Followers" :> profile.followers.total)

SavedTrackRow(item) ==
    LET tr == item.track IN
    ("Track Name" :> tr.name) @@ ("Artist" :> Join(Names(tr.artists))) @@
    ("Album" :> tr.album.name) @@ ("Release Date" :> tr.album.release_date) @@
    ("Duration (ms)" :> tr.duration_ms)

RecentRow(item) ==
    LET tr == item.track IN
    ("Track Name" :> tr.name) @@ ("Artist" :> Join(Names(tr.artists))) @@
    ("Album" :> tr.album.name) @@ ("Played At" :> item.played_at)

FollowedArtistRow(art) ==
    ("Artist Name" :> art.name) @@ ("Artist ID" :> art.id) @@
    ("Genres" :> Join(art.genres)) @@ ("Followers" :> art.followers.total) @@
    ("Popularity" :> art.popularity)

PlaylistRow(pl) ==
    ("Playlist ID" :> pl.id) @@ ("Playlist Name" :> pl.name) @@
    ("Description" :> Get(pl, "description", EmptyStr)) @@
    ("Tracks Count" :> pl.tracks.total) @@ ("Public" :> pl.public)

TopArtistRow(art) ==
    ("Artist Name" :> art.name) @@ ("Genres" :> Join(art.genres)) @@
    ("Followers" :> art.followers.total) @@ ("Popularity" :> art.popularity)

SavedAlbumRow(item) ==
    LET alb == item.album IN
    ("Album Name" :> alb.name) @@ ("Artist" :> Join(Names(alb.artists))) @@
    ("Release Date" :> alb.release_date) @@ ("Total Tracks" :> alb.total_tracks)

\* the data list each fetcher builds from the items it got
SavedTracksData(items) == [k \in 1..Len(items) |-> SavedTrackRow(items[k])]
RecentData(items) == [k \in 1..Len(items) |-> RecentRow(items[k])]
FollowedArtistsData(items) == [k \in 1..Len(items) |-> FollowedArtistRow(items[k])]
PlaylistsData(items) == [k \in 1..Len(items) |-> PlaylistRow(items[k])]
TopArtistsData(items) == [k \in 1..Len(items) |-> TopArtistRow(items[k])]
SavedAlbumsData(items) == [k \in 1..Len(items) |-> SavedAlbumRow(items[k])]

\* [a.get('name', '') for a in artists]
NamesOrEmpty(artists) ==
    [k \in 1..Len(artists) |-> Get(artists[k], "name", EmptyStr)]

\* tr = item.get('track', {})
ItemTrack(item) == Get(item, "track", EmptyDict)
\* ab = item.get('added_by') or {}
ItemAddedBy(item) == OrEmptyDict(GetOrNone(item, "added_by"))

\* (mutant) added_by is read as item['added_by'], which raises when absent
PlaylistTrackRowRaisesMut(item) ==
    \/ IsNone(ItemTrack(item))
    \/ IsNone(Get(ItemTrack(item), "album", EmptyDict))
    \/ "added_by" \notin DOMAIN item

\* whether building the record of a playlist item raises: .get is called
\* on tr and on tr.get('album', {}), and None has no .get
PlaylistTrackRowRaises(item) ==
    \/ IsNone(ItemTrack(item))
    \/ IsNone(Get(ItemTrack(item), "album", EmptyDict))

\* the dict appended to records for one playlist item
PlaylistTrackRow(playlist_id, playlist_name, item) ==
    LET tr == ItemTrack(item)
        ab == ItemAddedBy(item)
    IN  ("Playlist ID" :> playlist_id) @@ ("Playlist Name" :> playlist_name) @@
        ("Track Name" :> Get(tr, "name", EmptyStr)) @@
        ("Artist" :> Join(NamesOrEmpty(Get(tr, "artists", <<>>)))) @@
        ("Album" :> Get(Get(tr, "album", EmptyDict), "name", EmptyStr)) @@
        ("Duration (ms)" :> Get(tr, "duration_ms", 0)) @@
        ("Added By ID" :> Get(ab, "id", Str("Unknown"))) @@
        ("Added At" :> Get(item, "added_at", Str("Unknown")))

\* ------------------------------------------------- one pass of each loop

\* (mutant) the offset moves on by one item, not by one page
PaginatePassMut(lim, off, res, items) ==
    [results |-> res \o items,
     done    |-> Len(items) < lim,
     offset  |-> IF Len(items) < lim THEN off ELSE off + 1]

\* paginate_results: one pass of `while True`, given the page the call
\* returned; done is the break
PaginatePass(lim, off, res, items) ==
    [results |-> res \o items,
     done    |-> Len(items) < lim,
     offset  |-> IF Len(items) < lim THEN off ELSE off + lim]

\* (mutant) the cursor is taken from the first artist of the batch
FollowedPassMut(aft, res, batch) ==
    [results |-> res \o batch,
     done    |-> Len(batch) < FollowedLimit,
     after   |-> IF Len(batch) < FollowedLimit THEN aft
                 ELSE PyStr(batch[1].id)]

\* fetch_followed_artists: one pass of `while True`, given the batch
FollowedPass(aft, res, batch) ==
    [results |-> res \o batch,
     done    |-> Len(batch) < FollowedLimit,
     after   |-> IF Len(batch) < FollowedLimit THEN aft
                 ELSE PyStr(batch[Len(batch)].id)]

\* (mutant) a full page ends the loop too: len(items) <= limit
PlaylistTracksPassMut(playlist_id, playlist_name, off, res, items) ==
    IF Len(items) = 0
    THEN [results |-> res, done |-> TRUE, raised |-> FALSE, offset |-> off]
    ELSE IF \E i \in 1..Len(items) : PlaylistTrackRowRaises(items[i])
    THEN [results |-> res, done |-> FALSE, raised |-> TRUE, offset |-> off]
    ELSE [results |-> res \o [k \in 1..Len(items) |->
                         PlaylistTrackRow(playlist_id, playlist_name, items[k])],
          done    |-> Len(items) <= PlaylistLimit,
          raised  |-> FALSE,
          offset  |-> off + PlaylistLimit]

\* fetch_playlist_tracks: one pass of `while True`, given the items of the
\* response; raised is an exception out of the for loop
PlaylistTracksPass(playlist_id, playlist_name, off, res, items) ==
    IF Len(items) = 0
    THEN [results |-> res, done |-> TRUE, raised |-> FALSE, offset |-> off]
    ELSE IF \E i \in 1..Len(items) : PlaylistTrackRowRaises(items[i])
    THEN [results |-> res, done |-> FALSE, raised |-> TRUE, offset |-> off]
    ELSE [results |-> res \o [k \in 1..Len(items) |->
                         PlaylistTrackRow(playlist_id, playlist_name, items[k])],
          done    |-> Len(items) < PlaylistLimit,
          raised  |-> FALSE,
          offset  |-> off + PlaylistLimit]

\* pd.DataFrame(rows): its columns are the keys of the rows, so a frame
\* built from no rows has no columns
DataFrame(rows) ==
    [columns |-> UNION {DOMAIN rows[i] : i \in 1..Len(rows)}, nrows |-> Len(rows)]

\* ------------------------------------------------------------------ state

VARIABLES
    pc,                \* where the script is (Spec), or the function running (SpecFn)
    server,            \* what the data API holds; never written by the script
                       \* (SpecFn: with the function called and its arguments)
    limit,             \* paginate_results' limit argument
    offset,            \* the offset local of the running loop
    after,             \* the cursor local of fetch_followed_artists
    results,           \* the list the running loop accumulates (results / items / records)
    plIdx,             \* position of `for pl in playlists_meta`
    user_data, tracks_data, recent_data, artists_data, playlists_meta,
    playlist_tracks, top_artists_data, saved_albums_data,
    calls,             \* every API call issued so far, in order
    files,             \* the files written so far, in order
    console,           \* the lines printed that tell the outcome of a step
    retval             \* SpecFn: what the called function returned

datasets ==
    <<user_data, tracks_data, recent_data, artists_data, playlists_meta,
      playlist_tracks, top_artists_data, saved_albums_data>>
locals == <<limit, offset, after, results, plIdx>>
vars == <<pc, server, locals, datasets, calls, files, console, retval>>

\* one API call as logged: the endpoint method, its arguments, and whether
\* it returned (ok) or raised
Call(ep, args, ok) == [ep |-> ep, args |-> args, ok |-> ok]
NoArgs == [py |-> "dict"]

\* an exception nobody catches: the interpreter prints a traceback and the
\* script ends there
Crashed == "crashed"

\* (mutant) the exception is swallowed and the script goes on to export
\* what it has
RaiseMut(ep, args) ==
    /\ calls' = Append(calls, Call(ep, args, FALSE))
    /\ pc' = "export"
    /\ UNCHANGED <<server, locals, datasets, files, console, retval>>

\* the API call of the running step raises and nothing catches it
Raise(ep, args) ==
    /\ calls' = Append(calls, Call(ep, args, FALSE))
    /\ pc' = Crashed
    /\ UNCHANGED <<server, locals, datasets, files, console, retval>>

\* ------------------------------------------------------------ the script

\* (mutant) followed artists are fetched before recently played
NextStageMut(stage) ==
    CASE stage = "auth"             -> "profile"
      [] stage = "profile"          -> "saved_tracks"
      [] stage = "saved_tracks"     -> "followed_artists"
      [] stage = "followed_artists" -> "recently_played"
      [] stage = "recently_played"  -> "playlists"
      [] stage = "playlists"        -> "playlist_tracks"
      [] stage = "playlist_tracks"  -> "top_artists"
      [] stage = "top_artists"      -> "saved_albums"
      [] stage = "saved_albums"     -> "export"
      [] stage = "export"           -> "done"

\* the statement that runs after each statement of the main execution
\* returns ("playlist_tracks" is the for loop over playlists_meta)
NextStage(stage) ==
    CASE stage = "auth"             -> "profile"
      [] stage = "profile"          -> "saved_tracks"
      [] stage = "saved_tracks"     -> "recently_played"
      [] stage = "recently_played"  -> "followed_artists"
      [] stage = "followed_artists" -> "playlists"
      [] stage = "playlists"        -> "playlist_tracks"
      [] stage = "playlist_tracks"  -> "top_artists"
      [] stage = "top_artists"      -> "saved_albums"
      [] stage = "saved_albums"     -> "export"
      [] stage = "export"           -> "done"

\* (mutant) the except branch prints and the script goes on
AfterAuthFailureMut == "profile"

\* exit() in the except branch of the authentication block
AfterAuthFailure == "exited"

\* (mutant) export_csv catches the exception and goes on with the loop
AfterWriteFailureMut == "export"

\* to_csv raises inside export_csv and nothing catches it
AfterWriteFailure == Crashed

\* (mutant) the list is replaced: playlist_tracks = fetch_playlist_tracks(...)
ExtendMut(list, more) == more

\* list.extend(more)
Extend(list, more) == list \o more

\* the n artists the API holds for an artists endpoint
ArtistsHeld(n) == [i \in 1..n |-> ArtistItem(i)]
\* a playlist item whose track the API serves as null (a track that is no
\* longer available)
NullTrackItem(i) == [FullPlItem(i) EXCEPT !.track = PyNone]
\* the tracks of the i-th playlist, n of them; with nulls, its first item
\* has a null track
PlaylistTracksOf(i, n, nulls) ==
    [j \in 1..n |-> IF nulls /\ j = 1 THEN NullTrackItem(10 * i + j)
                    ELSE FullPlItem(10 * i + j)]
\* sequences of at most MaxPlaylists track counts, each at most MaxTracks
TrackCounts == UNION {[1..k -> 0..MaxTracks] : k \in 0..MaxPlaylists}

\* a plain collection is empty or holds MaxItems items (runs over lists of
\* more than a page are those of SpecFn)
Sizes == {0, MaxItems}

Servers ==
    {[profile          |-> Profile,
      saved_tracks     |-> [i \in 1..nt |-> SavedTrackItem(i)],
      recently_played  |-> [i \in 1..nr |-> RecentItem(i)],
      followed_artists |-> ArtistsHeld(nf),
      playlists        |-> [i \in 1..Len(tc) |-> PlaylistItem(i, tc[i])],
      playlist_items   |-> [i \in 1..Len(tc) |-> PlaylistTracksOf(i, tc[i], nulls)],
      top_artists      |-> ArtistsHeld(na),
      saved_albums     |-> [i \in 1..ns |-> SavedAlbumItem(i)]] :
        nt \in Sizes, nr \in Sizes, nf \in Sizes, na \in Sizes, ns \in Sizes,
        tc \in TrackCounts, nulls \in BOOLEAN}

\* the items the API holds for the playlist with this id
ItemsOfPlaylist(playlist_id) ==
    LET i == CHOOSE i \in 1..Len(server.playlists) :
                 server.playlists[i].id = playlist_id
    IN server.playlist_items[i]

InitLocals ==
    /\ offset = 0
    /\ after = PyNone
    /\ results = <<>>
    /\ plIdx = 1
    /\ calls = <<>>
    /\ retval = <<>>

Init ==
    /\ pc = "auth"
    /\ server \in Servers
    /\ limit = DefaultLimit
    /\ InitLocals
    /\ user_data = <<>> /\ tracks_data = <<>> /\ recent_data = <<>>
    /\ artists_data = <<>> /\ playlists_meta = <<>> /\ playlist_tracks = <<>>
    /\ top_artists_data = <<>> /\ saved_albums_data = <<>>
    /\ files = <<>>
    /\ console = <<>>

\* the try block that builds the client: it either succeeds, or the
\* except branch prints and calls exit()
Authenticate ==
    /\ pc = "auth"
    /\ \E ok \in BOOLEAN :
        IF ok
        THEN /\ console' = console \o <<"Authenticating with Spotify...",
                                         "Authentication successful.">>
             /\ pc' = NextStage("auth")
        ELSE /\ console' = console \o <<"Authenticating with Spotify...",
                                         "Authentication failed">>
             /\ pc' = AfterAuthFailure
    /\ UNCHANGED <<server, locals, datasets, calls, files, retval>>

fetch_user_profile ==
    /\ pc = "profile"
    /\ \/ Raise("current_user", NoArgs)
       \/ /\ calls' = Append(calls, Call("current_user", NoArgs, TRUE))
          /\ user_data' = UserRow(server.profile)
          /\ pc' = NextStage("profile")
          /\ UNCHANGED <<server, locals, tracks_data, recent_data, artists_data,
                         playlists_meta, playlist_tracks, top_artists_data,
                         saved_albums_data, files, console, retval>>

\* the arguments paginate_results passes to fetch_function
PageArgs == [limit |-> limit, offset |-> offset]

\* one pass of paginate_results over endpoint ep serving list: the call,
\* and the locals after it (reset once the function has returned)
Paginate(ep, list) ==
    LET p == PaginatePass(limit, offset, results, OffsetPage(list, offset, limit)) IN
    /\ calls' = Append(calls, Call(ep, PageArgs, TRUE))
    /\ offset' = IF p.done THEN 0 ELSE p.offset
    /\ results' = IF p.done THEN <<>> ELSE p.results
    /\ UNCHANGED <<server, limit, after, plIdx, files, console>>
\* whether that pass is the last, and what paginate_results then returns
Returns(list) ==
    PaginatePass(limit, offset, results, OffsetPage(list, offset, limit)).done
Returned(list) ==
    PaginatePass(limit, offset, results, OffsetPage(list, offset, limit)).results

fetch_saved_tracks ==
    /\ pc = "saved_tracks"
    /\ \/ Raise("current_user_saved_tracks", PageArgs)
       \/ /\ Paginate("current_user_saved_tracks", server.saved_tracks)
          /\ IF Returns(server.saved_tracks)
             THEN /\ tracks_data' = SavedTracksData(Returned(server.saved_tracks))
                  /\ pc' = NextStage("saved_tracks")
             ELSE UNCHANGED <<tracks_data, pc>>
          /\ UNCHANGED <<user_data, recent_data, artists_data, playlists_meta,
                         playlist_tracks, top_artists_data, saved_albums_data, retval>>

\* a single call; an exception is caught, reported, and [] is returned
fetch_recently_played ==
    /\ pc = "recently_played"
    /\ \E ok \in BOOLEAN :
        /\ calls' = Append(calls, Call("current_user_recently_played",
                                       [limit |-> RecentLimit], ok))
        /\ IF ok
           THEN /\ recent_data' =
                       RecentData(Slice(server.recently_played, 1, RecentLimit))
                /\ console' = console
           ELSE /\ recent_data' = <<>>
                /\ console' = Append(console, "Error fetching recently played tracks")
    /\ pc' = NextStage("recently_played")
    /\ UNCHANGED <<server, locals, user_data, tracks_data, artists_data,
                   playlists_meta, playlist_tracks, top_artists_data,
                   saved_albums_data, files, retval>>

\* the arguments of the followed-artists call
CursorArgs == [limit |-> FollowedLimit, after |-> after]

\* one pass of the cursor loop over the list the endpoint serves
Followed(list) ==
    LET p == FollowedPass(after, results, CursorPage(list, after, FollowedLimit)) IN
    /\ calls' = Append(calls, Call("current_user_followed_artists", CursorArgs, TRUE))
    /\ after' = IF p.done THEN PyNone ELSE p.after
    /\ results' = IF p.done THEN <<>> ELSE p.results
    /\ UNCHANGED <<server, limit, offset, plIdx, files, console>>
FollowedReturns(list) ==
    FollowedPass(after, results, CursorPage(list, after, FollowedLimit)).done
FollowedReturned(list) ==
    FollowedPass(after, results, CursorPage(list, after, FollowedLimit)).results

fetch_followed_artists ==
    /\ pc = "followed_artists"
    /\ \/ Raise("current_user_followed_artists", CursorArgs)
       \/ /\ Followed(server.followed_artists)
          /\ IF FollowedReturns(server.followed_artists)
             THEN /\ artists_data' =
                         FollowedArtistsData(FollowedReturned(server.followed_artists))
                  /\ pc' = NextStage("followed_artists")
             ELSE UNCHANGED <<artists_data, pc>>
          /\ UNCHANGED <<user_data, tracks_data, recent_data, playlists_meta,
                         playlist_tracks, top_artists_data, saved_albums_data, retval>>

\* fetch_playlists; with no playlist the for loop that follows has no pass
fetch_playlists ==
    /\ pc = "playlists"
    /\ \/ Raise("current_user_playlists", PageArgs)
       \/ /\ Paginate("current_user_playlists", server.playlists)
          /\ IF Returns(server.playlists)
             THEN /\ playlists_meta' = PlaylistsData(Returned(server.playlists))
                  /\ pc' = IF Len(Returned(server.playlists)) = 0
                           THEN NextStage("playlist_tracks")
                           ELSE NextStage("playlists")
             ELSE UNCHANGED <<playlists_meta, pc>>
          /\ UNCHANGED <<user_data, tracks_data, recent_data, artists_data,
                         playlist_tracks, top_artists_data, saved_albums_data, retval>>

\* the arguments of the playlist-items call for a playlist
ItemsArgs(playlist_id) ==
    [playlist_id |-> playlist_id, offset |-> offset, limit |-> PlaylistLimit]

\* one pass of fetch_playlist_tracks' loop that raises nothing: the call,
\* and the locals after it (reset once the function has returned)
PlaylistTracks(playlist_id, p) ==
    /\ ~p.raised
    /\ calls' = Append(calls, Call("playlist_items", ItemsArgs(playlist_id), TRUE))
    /\ offset' = IF p.done THEN 0 ELSE p.offset
    /\ results' = IF p.done THEN <<>> ELSE p.results
    /\ UNCHANGED <<server, limit, after, files, console>>

\* the call returns and building a record raises: nothing catches it
RowRaise(playlist_id, p) ==
    /\ p.raised
    /\ calls' = Append(calls, Call("playlist_items", ItemsArgs(playlist_id), TRUE))
    /\ pc' = Crashed
    /\ UNCHANGED <<server, locals, datasets, files, console, retval>>

\* one pass of fetch_playlist_tracks for the playlist the for loop is at;
\* when it returns, its records extend playlist_tracks and the for loop
\* moves on
fetch_playlist_tracks ==
    /\ pc = "playlist_tracks"
    /\ LET pl == playlists_meta[plIdx]
           id == pl["Playlist ID"]
           p  == PlaylistTracksPass(id, pl["Playlist Name"], offset, results,
                     OffsetPage(ItemsOfPlaylist(id), offset, PlaylistLimit))
       IN \/ Raise("playlist_items", ItemsArgs(id))
          \/ RowRaise(id, p)
          \/ /\ PlaylistTracks(id, p)
             /\ IF p.done
                THEN /\ playlist_tracks' = Extend(playlist_tracks, p.results)
                     /\ plIdx' = plIdx + 1
                     /\ pc' = IF plIdx = Len(playlists_meta)
                              THEN NextStage("playlist_tracks") ELSE pc
                ELSE UNCHANGED <<playlist_tracks, plIdx, pc>>
             /\ UNCHANGED <<user_data, tracks_data, recent_data, artists_data,
                            playlists_meta, top_artists_data, saved_albums_data,
                            retval>>

fetch_top_artists ==
    /\ pc = "top_artists"
    /\ \/ Raise("current_user_top_artists", PageArgs)
       \/ /\ Paginate("current_user_top_artists", server.top_artists)
          /\ IF Returns(server.top_artists)
             THEN /\ top_artists_data' = TopArtistsData(Returned(server.top_artists))
                  /\ pc' = NextStage("top_artists")
             ELSE UNCHANGED <<top_artists_data, pc>>
          /\ UNCHANGED <<user_data, tracks_data, recent_data, artists_data,
                         playlists_meta, playlist_tracks, saved_albums_data, retval>>

fetch_saved_albums ==
    /\ pc = "saved_albums"
    /\ \/ Raise("current_user_saved_albums", PageArgs)
       \/ /\ Paginate("current_user_saved_albums", server.saved_albums)
          /\ IF Returns(server.saved_albums)
             THEN /\ saved_albums_data' =
                         SavedAlbumsData(Returned(server.saved_albums))
                  /\ pc' = NextStage("saved_albums")
             ELSE UNCHANGED <<saved_albums_data, pc>>
          /\ UNCHANGED <<user_data, tracks_data, recent_data, artists_data,
                         playlists_meta, playlist_tracks, top_artists_data, retval>>

\* the keys of the frames dict, in insertion order
FrameOrder ==
    <<"user_data", "saved_tracks", "recently_played_tracks", "followed_artists",
      "playlists", "playlist_tracks", "top_artists", "saved_albums">>

\* frames[name]
Frames(name) ==
    CASE name = "user_data"              -> DataFrame(<<user_data>>)
      [] name = "saved_tracks"           -> DataFrame(tracks_data)
      [] name = "recently_played_tracks" -> DataFrame(recent_data)
      [] name = "followed_artists"       -> DataFrame(artists_data)
      [] name = "playlists"              -> DataFrame(playlists_meta)
      [] name = "playlist_tracks"        -> DataFrame(playlist_tracks)
      [] name = "top_artists"            -> DataFrame(top_artists_data)
      [] name = "saved_albums"           -> DataFrame(saved_albums_data)

\* f'spotify_{name}_{timestamp}.csv'; the timestamp is one value per run
FileName(name) == <<"spotify_", name, "_", "timestamp", ".csv">>

\* df.to_csv(filename, index=False): a header line of the frame's columns,
\* then one line per row
CsvFile(name, df) ==
    [name |-> FileName(name), collection |-> name, header |-> df.columns,
     nrows |-> df.nrows, complete |-> TRUE]
\* what a write that raised may leave behind
PartialFile(name) ==
    [name |-> FileName(name), collection |-> name, header |-> {},
     nrows |-> 0, complete |-> FALSE]

\* the next collection export_csv's for loop writes
NextToWrite == FrameOrder[Len(files) + 1]

\* one pass of export_csv's for loop; to_csv may raise, and nothing catches
\* it; after the last pass the script prints its last line
export_csv ==
    /\ pc = "export"
    /\ \/ /\ files' = Append(files, CsvFile(NextToWrite, Frames(NextToWrite)))
          /\ IF Len(files) + 1 = Len(FrameOrder)
             THEN /\ console' = console \o
                        <<NextToWrite, "All data has been successfully exported.">>
                  /\ pc' = NextStage("export")
             ELSE /\ console' = Append(console, NextToWrite)
                  /\ pc' = pc
       \/ /\ \E leftover \in BOOLEAN :
                files' = IF leftover THEN Append(files, PartialFile(NextToWrite))
                         ELSE files
          /\ pc' = AfterWriteFailure
          /\ console' = console
    /\ UNCHANGED <<server, locals, datasets, calls, retval>>

Next ==
    \/ Authenticate
    \/ fetch_user_profile
    \/ fetch_saved_tracks
    \/ fetch_recently_played
    \/ fetch_followed_artists
    \/ fetch_playlists
    \/ fetch_playlist_tracks
    \/ fetch_top_artists
    \/ fetch_saved_albums
    \/ export_csv

Spec == Init /\ [][Next]_vars

\* ------------------------------------------ the loops, called on their own

\* paginate_results(fetch_function, limit) over a list of integers
ListInputs ==
    {[fn |-> "paginate_results", list |-> [i \in 1..n |-> i]] :
        n \in 0..MaxListLen}
\* fetch_followed_artists over the artists the user follows
ArtistInputs ==
    {[fn |-> "fetch_followed_artists", list |-> ArtistsHeld(n)] :
        n \in 0..(MaxPages * FollowedLimit + 1)}
\* fetch_playlist_tracks(playlist_id, playlist_name) over the playlist's
\* items: well-formed items of any number, or one item of any shape
TrackInputs ==
    {[fn |-> "fetch_playlist_tracks", list |-> [i \in 1..n |-> FullPlItem(i)],
      playlist_id |-> Txt("playlist_id", 1),
      playlist_name |-> Txt("playlist", 1)] :
        n \in 0..(MaxPages * PlaylistLimit + 1)}
    \cup
    {[fn |-> "fetch_playlist_tracks", list |-> <<item>>,
      playlist_id |-> Txt("playlist_id", 1),
      playlist_name |-> Txt("playlist", 1)] : item \in ItemShapes}

InitFn ==
    /\ \/ limit \in 1..MaxLimit /\ server \in ListInputs
       \/ limit = DefaultLimit /\ server \in ArtistInputs
       \/ limit = DefaultLimit /\ server \in TrackInputs
    /\ pc = server.fn
    /\ InitLocals
    /\ user_data = <<>> /\ tracks_data = <<>> /\ recent_data = <<>>
    /\ artists_data = <<>> /\ playlists_meta = <<>> /\ playlist_tracks = <<>>
    /\ top_artists_data = <<>> /\ saved_albums_data = <<>>
    /\ files = <<>>
    /\ console = <<>>

call_paginate_results ==
    /\ pc = "paginate_results"
    /\ Paginate("fetch_function", server.list)
    /\ IF Returns(server.list)
       THEN retval' = Returned(server.list) /\ pc' = "returned"
       ELSE UNCHANGED <<retval, pc>>
    /\ UNCHANGED datasets

call_fetch_followed_artists ==
    /\ pc = "fetch_followed_artists"
    /\ Followed(server.list)
    /\ IF FollowedReturns(server.list)
       THEN /\ retval' = FollowedArtistsData(FollowedReturned(server.list))
            /\ pc' = "returned"
       ELSE UNCHANGED <<retval, pc>>
    /\ UNCHANGED datasets

call_fetch_playlist_tracks ==
    /\ pc = "fetch_playlist_tracks"
    /\ LET p == PlaylistTracksPass(server.playlist_id, server.playlist_name,
                    offset, results,
                    OffsetPage(server.list, offset, PlaylistLimit))
       IN \/ RowRaise(server.playlist_id, p)
          \/ /\ PlaylistTracks(server.playlist_id, p)
             /\ IF p.done
                THEN retval' = p.results /\ pc' = "returned"
                ELSE UNCHANGED <<retval, pc>>
             /\ UNCHANGED <<plIdx, datasets>>

NextFn ==
    \/ call_paginate_results
    \/ call_fetch_followed_artists
    \/ call_fetch_playlist_tracks

SpecFn == InitFn /\ [][NextFn]_vars

\* ------------------------------------------------ properties of the loops

\* the function called (SpecFn)
OffsetPaged == server.fn \in {"paginate_results", "fetch_playlist_tracks"}
\* the page size the called function uses
PageSize ==
    CASE server.fn = "paginate_results"       -> limit
      [] server.fn = "fetch_playlist_tracks"  -> PlaylistLimit
      [] server.fn = "fetch_followed_artists" -> FollowedLimit
\* whether every item served is free of nulls where the code calls .get
NoNullServed ==
    server.fn = "fetch_playlist_tracks" =>
    \A i \in 1..Len(server.list) :
        /\ ~IsNone(Get(server.list[i], "track", EmptyDict))
        /\ ~IsNone(Get(Get(server.list[i], "track", EmptyDict), "album", EmptyDict))
\* what identifies an item in what the function returns: the item itself
\* (paginate_results), or the track name of its row (fetch_playlist_tracks
\* on items that have one)
Tag(x) == IF server.fn = "paginate_results" THEN x ELSE x["Track Name"]
TagOfServed(item) ==
    IF server.fn = "paginate_results" THEN item ELSE item.track.name
Named ==
    server.fn = "paginate_results" \/
    \A i \in 1..Len(server.list) :
        /\ "track" \in DOMAIN server.list[i]
        /\ ~IsNone(server.list[i].track)
        /\ "name" \in DOMAIN server.list[i].track

\* C1: offset pagination (paginate_results with any limit, and
\* fetch_playlist_tracks with limit 100) over a fixed list served in pages
\* requests the offsets 0, limit, 2*limit, ... in that order, and what it has
\* accumulated when the loop ends is one entry per item of the list, in the
\* list's order: nothing twice, nothing left out.
C1_PaginationExact ==
    OffsetPaged =>
        /\ \A k \in 1..Len(calls) :
               /\ calls[k].args.offset = (k - 1) * PageSize
               /\ calls[k].args.limit = PageSize
        /\ pc = "returned" =>
               /\ Len(retval) = Len(server.list)
               /\ Named => \A i \in 1..Len(retval) :
                               Tag(retval[i]) = TagOfServed(server.list[i])

\* C1 witness: fetch_playlist_tracks has returned the 2 * 100 + 1 entries of
\* a playlist it read in three pages, the last one short.
C1_Witness ==
    /\ pc = "returned"
    /\ server.fn = "fetch_playlist_tracks"
    /\ Len(calls) = 3
    /\ Len(retval) = 2 * PlaylistLimit + 1
    /\ retval[Len(retval)]["Track Name"] = Txt("track", 2 * PlaylistLimit + 1)

\* the calls a loop with page size lim makes over n items
ExpectedCalls(n, lim) ==
    IF n % lim = 0 THEN (n \div lim) + 1 ELSE (n + lim - 1) \div lim

\* C2: offset pagination over N items ends, after exactly ceil(N/limit)+1
\* page fetches when N is a multiple of limit (N = 0 included) and exactly
\* ceil(N/limit) otherwise, for paginate_results and fetch_playlist_tracks.
\* Every step of the loop is one page fetch and the fetches never exceed
\* that number, so the loop cannot run on; when it has returned it has made
\* exactly that number.
C2_CallCount ==
    /\ [](OffsetPaged =>
            /\ Len(calls) <= ExpectedCalls(Len(server.list), PageSize)
            /\ pc = "returned" =>
                   Len(calls) = ExpectedCalls(Len(server.list), PageSize))
    /\ [][OffsetPaged => Len(calls') = Len(calls) + 1]_vars

\* C2 witness: a playlist of exactly 100 items took two calls, the second
\* one returning the empty page.
C2_Witness ==
    /\ pc = "returned"
    /\ server.fn = "fetch_playlist_tracks"
    /\ Len(server.list) = PlaylistLimit
    /\ Len(calls) = 2

\* C8: the followed-artists loop starts with no cursor, passes on every later
\* call the id of the last artist of the page before it (a text, never a
\* number), reads a cursor only from a full page, and ends at the first page
\* shorter than 50, with one trailing call when the count is a multiple of 50.
C8_Cursor ==
    server.fn = "fetch_followed_artists" =>
        /\ \A k \in 1..Len(calls) :
               calls[k].args.after =
                   IF k = 1 THEN PyNone
                   ELSE PyStr(server.list[(k - 1) * FollowedLimit].id)
        /\ IsNone(after) \/
               (after.py = "str" /\ IndexOfId(server.list, after.v) # 0)
        /\ Len(calls) <= ExpectedCalls(Len(server.list), FollowedLimit)
        /\ pc = "returned" =>
               /\ Len(calls) = ExpectedCalls(Len(server.list), FollowedLimit)
               /\ Len(retval) = Len(server.list)
               /\ \A i \in 1..Len(retval) :
                      retval[i]["Artist ID"] = server.list[i].id

\* C8 witness: 100 followed artists were read in three calls, the third with
\* the id of the 100th artist as its cursor.
C8_Witness ==
    /\ pc = "returned"
    /\ server.fn = "fetch_followed_artists"
    /\ Len(server.list) = 2 * FollowedLimit
    /\ Len(calls) = 3
    /\ calls[3].args.after = PyStr(Txt("artist_id", 2 * FollowedLimit))

\* the columns of a playlist-tracks row
PlaylistTrackColumns ==
    {"Playlist ID", "Playlist Name", "Track Name", "Artist", "Album",
     "Duration (ms)", "Added By ID", "Added At"}
\* key k is missing from dict d
Missing(d, k) == k \notin DOMAIN d

\* C9: a playlist item with any of added_by, added_at, track, the track's
\* name, artists, album or duration missing raises nothing: it gives exactly
\* one row of all eight columns, with "Unknown" for a missing added_by or
\* added_at, the empty text for missing text fields and 0 for a missing
\* duration.  (Only a null track or a null album raises.)
C9_MissingFields ==
    (server.fn = "fetch_playlist_tracks" /\ Len(server.list) = 1) =>
        LET item == server.list[1] IN
        /\ NoNullServed => pc # Crashed
        /\ pc = "returned" =>
            /\ Len(retval) = 1
            /\ DOMAIN retval[1] = PlaylistTrackColumns
            /\ Missing(item, "added_by") => retval[1]["Added By ID"] = Str("Unknown")
            /\ ~Missing(item, "added_by") =>
                   retval[1]["Added By ID"] =
                       IF IsNone(item.added_by) \/ Missing(item.added_by, "id")
                       THEN Str("Unknown") ELSE item.added_by.id
            /\ Missing(item, "added_at") => retval[1]["Added At"] = Str("Unknown")
            /\ Missing(item, "track") =>
                   /\ retval[1]["Track Name"] = EmptyStr
                   /\ retval[1]["Artist"] = EmptyStr
                   /\ retval[1]["Album"] = EmptyStr
                   /\ retval[1]["Duration (ms)"] = 0
            /\ ~Missing(item, "track") =>
                   /\ Missing(item.track, "name") => retval[1]["Track Name"] = EmptyStr
                   /\ Missing(item.track, "artists") => retval[1]["Artist"] = EmptyStr
                   /\ Missing(item.track, "album") => retval[1]["Album"] = EmptyStr
                   /\ ~Missing(item.track, "album") =>
                          retval[1]["Album"] =
                              IF Missing(item.track.album, "name") THEN EmptyStr
                              ELSE item.track.album.name
                   /\ ~Missing(item.track, "name") =>
                          retval[1]["Track Name"] = item.track.name
                   /\ Missing(item.track, "duration_ms") =>
                          retval[1]["Duration (ms)"] = 0

\* C9 witness: an item with no added_by (and no track) came back as one row
\* whose Added By ID is "Unknown".
C9_Witness ==
    /\ pc = "returned"
    /\ server.fn = "fetch_playlist_tracks"
    /\ Len(server.list) = 1
    /\ Missing(server.list[1], "added_by")
    /\ Missing(server.list[1], "track")
    /\ Len(retval) = 1
    /\ retval[1]["Added By ID"] = Str("Unknown")
    /\ retval[1]["Duration (ms)"] = 0

\* ----------------------------------------------- properties of the script

Success == "All data has been successfully exported."
\* the line was printed
Printed(line) == \E i \in 1..Len(console) : console[i] = line
\* the collection has a file on disk, written to its end
Written(name) ==
    \E i \in 1..Len(files) : files[i].collection = name /\ files[i].complete
\* the file of the collection
FileOf(name) == files[CHOOSE i \in 1..Len(files) : files[i].collection = name]
\* the call's endpoint method was called and returned
Fetched(ep) == \E k \in 1..Len(calls) : calls[k].ep = ep /\ calls[k].ok
\* the Recently Played call raised
RecentFailed ==
    \E k \in 1..Len(calls) :
        calls[k].ep = "current_user_recently_played" /\ ~calls[k].ok
\* the keys of the dict fetch_recently_played appends
RecentColumns == {"Track Name", "Artist", "Album", "Played At"}

\* C3 (as claimed): when the Recently Played call raises, the run goes on:
\* every later fetch is made, the other seven collections get their files,
\* and the recently_played_tracks file is written holding the Recently Played
\* column names as its header and no data row.
C3_RecentFailureHeaderOnly ==
    (RecentFailed /\ pc = "done") =>
        /\ Fetched("current_user_followed_artists")
        /\ Fetched("current_user_playlists")
        /\ Fetched("current_user_top_artists")
        /\ Fetched("current_user_saved_albums")
        /\ \A i \in 1..Len(FrameOrder) : Written(FrameOrder[i])
        /\ FileOf("recently_played_tracks").nrows = 0
        /\ FileOf("recently_played_tracks").header = RecentColumns

\* C3 (the part the code keeps): the same, but for the header, which holds no
\* column name at all.
C3_RecentFailureTolerated ==
    /\ RecentFailed => \A k \in 1..Len(calls) :
           (calls[k].ep = "current_user_recently_played" /\ ~calls[k].ok) =>
               (k < Len(calls) \/ pc # Crashed)
    /\ (RecentFailed /\ pc = "done") =>
        /\ Fetched("current_user_followed_artists")
        /\ Fetched("current_user_playlists")
        /\ Fetched("current_user_top_artists")
        /\ Fetched("current_user_saved_albums")
        /\ \A i \in 1..Len(FrameOrder) : Written(FrameOrder[i])
        /\ FileOf("recently_played_tracks").nrows = 0
        /\ FileOf("recently_played_tracks").header = {}

\* C4: when the API call of any fetcher other than Recently Played raises,
\* the run ends there: that call is the last one issued, no file is written,
\* and the success line is not printed.
C4_FetchFailureAborts ==
    \A k \in 1..Len(calls) :
        (~calls[k].ok /\ calls[k].ep # "current_user_recently_played") =>
            /\ k = Len(calls)
            /\ pc = Crashed
            /\ files = <<>>
            /\ ~Printed(Success)

\* C4 witness: the playlist-items call of the second playlist raised, after
\* the five fetchers before it and the first playlist went through.
C4_Witness ==
    /\ pc = Crashed
    /\ Len(calls) >= 7
    /\ calls[Len(calls)].ep = "playlist_items"
    /\ ~calls[Len(calls)].ok
    /\ plIdx = 2
    /\ files = <<>>

\* C5: when building the client fails, the failure is printed and the run
\* ends at once: no API call is ever issued and no file is written.
C5_AuthFailureStops ==
    (Printed("Authentication failed") \/ pc = "exited") =>
        /\ Printed("Authentication failed")
        /\ pc = "exited"
        /\ calls = <<>>
        /\ files = <<>>
        /\ ~Printed(Success)

\* C5 witness: authentication failed and the script has exited.
C5_Witness ==
    /\ pc = "exited"
    /\ console = <<"Authenticating with Spotify...", "Authentication failed">>

\* the place of an endpoint method in the order of the main execution
Rank(ep) ==
    CASE ep = "current_user"                  -> 1
      [] ep = "current_user_saved_tracks"     -> 2
      [] ep = "current_user_recently_played"  -> 3
      [] ep = "current_user_followed_artists" -> 4
      [] ep = "current_user_playlists"        -> 5
      [] ep = "playlist_items"                -> 6
      [] ep = "current_user_top_artists"      -> 7
      [] ep = "current_user_saved_albums"     -> 8
\* the place of a playlist in what fetch_playlists returned
PlaylistPos(id) ==
    CHOOSE i \in 1..Len(playlists_meta) : playlists_meta[i]["Playlist ID"] = id
\* the calls made to an endpoint method
CallsTo(ep) == {k \in 1..Len(calls) : calls[k].ep = ep}

\* C6: the steps of a run come in the order Authenticate, Profile, Saved
\* Tracks, Recently Played, Followed Artists, Playlists, Playlist Tracks of
\* each playlist in the order fetch_playlists returned them, Top Artists,
\* Saved Albums, Export; a call is issued only once the call before it has
\* completed, and no file is written before the Saved Albums fetch has
\* completed.
C6_FixedOrder ==
    /\ calls # <<>> => Printed("Authentication successful.")
    /\ \A j, k \in 1..Len(calls) :
           j < k =>
               /\ Rank(calls[j].ep) <= Rank(calls[k].ep)
               /\ calls[j].ok \/ calls[j].ep = "current_user_recently_played"
               /\ (calls[j].ep = "playlist_items" /\ calls[k].ep = "playlist_items")
                    => PlaylistPos(calls[j].args.playlist_id)
                         <= PlaylistPos(calls[k].args.playlist_id)
    /\ (files # <<>> \/ pc \in {"export", "done"}) =>
           /\ calls[Len(calls)].ep = "current_user_saved_albums"
           /\ calls[Len(calls)].ok
           /\ \A ep \in {"current_user", "current_user_saved_tracks",
                         "current_user_recently_played",
                         "current_user_followed_artists",
                         "current_user_playlists", "current_user_top_artists",
                         "current_user_saved_albums"} : CallsTo(ep) # {}
           /\ Cardinality(CallsTo("current_user")) = 1
           /\ Cardinality(CallsTo("current_user_recently_played")) = 1
           /\ \A i \in 1..Len(playlists_meta) :
                  \E k \in CallsTo("playlist_items") :
                      calls[k].args.playlist_id = playlists_meta[i]["Playlist ID"]

\* C6 witness: a run over two playlists went through every step and wrote
\* its eight files.
C6_Witness ==
    /\ pc = "done"
    /\ Len(playlists_meta) = 2
    /\ Len(playlist_tracks) > 0
    /\ Len(calls) = 9
    /\ Len(files) = 8

\* the rows the playlists before the i-th hold
RECURSIVE RowsBefore(_)
RowsBefore(i) ==
    IF i <= 1 THEN 0
    ELSE RowsBefore(i - 1) + Len(server.playlist_items[i - 1])
\* the for loop over playlists_meta has ended
PlaylistStageDone == pc \in {"top_artists", "saved_albums", "export", "done"}

\* C7: the Playlist Tracks dataset is the rows of each playlist, one after
\* the other in the order the playlists were returned: fetch_playlist_tracks
\* is invoked once per playlist, every row carries the id and the name of the
\* playlist it comes from, there are as many rows as the playlists hold
\* tracks, and a playlist of no tracks adds no row.
C7_PlaylistTracksConcatenated ==
    PlaylistStageDone =>
        /\ Len(playlist_tracks) = RowsBefore(Len(server.playlists) + 1)
        /\ Len(playlists_meta) = Len(server.playlists)
        /\ \A i \in 1..Len(server.playlists) :
            /\ \A j \in 1..Len(server.playlist_items[i]) :
                LET row == playlist_tracks[RowsBefore(i) + j] IN
                /\ row["Playlist ID"] = server.playlists[i].id
                /\ row["Playlist Name"] = server.playlists[i].name
                /\ row["Track Name"] = server.playlist_items[i][j].track.name
            /\ Cardinality({k \in CallsTo("playlist_items") :
                   /\ calls[k].args.playlist_id = server.playlists[i].id
                   /\ calls[k].args.offset = 0}) = 1

\* C7 witness: playlists of 3 and 0 tracks gave exactly 3 rows.
C7_Witness ==
    /\ PlaylistStageDone
    /\ Len(server.playlists) = 2
    /\ Len(server.playlist_items[1]) = 3
    /\ Len(server.playlist_items[2]) = 0
    /\ Len(playlist_tracks) = 3
    /\ Cardinality(CallsTo("playlist_items")) = 2

\* a write raised: the script crashed after its last fetch had returned
WriteFailed ==
    /\ pc = Crashed
    /\ calls # <<>>
    /\ calls[Len(calls)].ep = "current_user_saved_albums"
    /\ calls[Len(calls)].ok

\* C10: export writes one file per collection in the order of the frames
\* dict and stops at the first write that raises: the files written before it
\* stay, no file of a later collection is written, and the success line is
\* not printed; when no write raises there is exactly one file for each of
\* the eight collections.
C10_ExportAborts ==
    /\ Len(files) <= Len(FrameOrder)
    /\ \A i \in 1..Len(files) :
           /\ files[i].collection = FrameOrder[i]
           /\ files[i].name = FileName(FrameOrder[i])
           /\ files[i].complete \/ (i = Len(files) /\ WriteFailed)
    /\ files # <<>> => pc \in {"export", "done"} \/ WriteFailed
    /\ WriteFailed => ~Printed(Success) /\ Len(files) <= Len(FrameOrder)
    /\ Printed(Success) <=> pc = "done"
    /\ pc = "done" =>
           /\ Len(files) = Len(FrameOrder)
           /\ \A i \in 1..Len(FrameOrder) : Written(FrameOrder[i])

\* C10 witness: the third write raised, leaving the first two files whole.
C10_Witness ==
    /\ WriteFailed
    /\ Len(files) = 2
    /\ files[1].complete /\ files[2].complete
    /\ ~Printed(Success)

====
